---- MODULE Spec2Model ----
\* A model of the real-time room relay of server.js (src/unnamed/part_000):
\* the three Socket.IO handlers join / chatMessage / disconnect, the two
\* module-level Maps `rooms` and `messageHistory`, and the two gateway calls
\* (analyzeMessage, translateText) a chatMessage handler awaits.
\*
\* Granularity: Node runs one handler body at a time, so an action is the code
\* a handler executes from the event (or from the resumption of an await) up to
\* its next await or its end.  A chatMessage handler suspended on a gateway
\* call is an entry of `handlers` with pc "analyze" or "translate".
EXTENDS Integers, Sequences, FiniteSets, TLC

\* ------------------------------------------------------------------ bounds

MaxEvents == 4      \* client events handled (join, chatMessage, disconnect)
MaxMsgs  == 2       \* accepted chatMessage events (handler invocations)
MaxClock == 1       \* readings of the wall clock are 0..MaxClock

\* ------------------------------------------------------------ input domains

Conns == {"s1", "s2", "s3"}                 \* socket ids
RoomIds == {"r1", "r2"}
Langs == {"en", "fr"}
Texts == {"bonjour"}

\* The display name each client sends in its join payload.
NameOf(s) == CASE s = "s1" -> "Ann" [] s = "s2" -> "Bob" [] OTHER -> "Cid"

\* The rooms and the profiles (language, role) each client may put in its join
\* payload: Ann is an agent who may join both rooms, Bob an end user, and Cid
\* joins as a supervisor or, with another language, as an agent.
RoomsOf(s) == IF s = "s1" THEN RoomIds ELSE {"r1"}
ProfilesOf(s) ==
    CASE s = "s1" -> {<<"en", "agent">>}
      [] s = "s2" -> {<<"fr", "user">>}
      [] OTHER -> {<<"en", "supervisor">>, <<"fr", "agent">>}

\* '' stands for a missing or empty field of a payload (both are falsy in JS).
Missing == ""

\* The join payloads of client s: the complete ones, and each of them with one
\* field left out.
JoinPayloads(s) ==
    LET full == {[room |-> r, username |-> NameOf(s), language |-> pr[1], role |-> pr[2]] :
                    r \in RoomsOf(s), pr \in ProfilesOf(s)}
    IN  full \cup UNION {{[p EXCEPT !.room = Missing], [p EXCEPT !.username = Missing],
                          [p EXCEPT !.language = Missing], [p EXCEPT !.role = Missing]} :
                         p \in full}

\* The chatMessage payloads: the complete ones, and each with one field left out.
ChatPayloads ==
    LET full == {[room |-> r, message |-> t, language |-> l] :
                    r \in RoomIds, t \in Texts, l \in Langs}
    IN  full \cup UNION {{[p EXCEPT !.room = Missing], [p EXCEPT !.message = Missing],
                          [p EXCEPT !.language = Missing]} : p \in full}

NoArgs == [room |-> Missing]      \* the payload of an event that has none
\* Ghost: what a step that resumes an await records instead of a payload, the
\* outcome `res` the gateway call settled with.
ReturnArgs(res) == [room |-> Missing, res |-> res]
NoMap == 0                        \* undefined, where a Map object is expected
\* Map objects that can be referenced at once: one per room of `rooms`, and the
\* Map of a destroyed room that a handler still holds as `roomUsers`.
MapIds == 1 .. (Cardinality(RoomIds) + MaxMsgs)
NoEntry == [id |-> Missing]       \* the loop variables [userId, user], unbound

Max(a, b) == IF a >= b THEN a ELSE b

VARIABLES
    rooms,          \* the Map `rooms`: its entries <<room, Map>> in insertion order
    maps,           \* the heap of `new Map()` objects: map id -> entries in insertion order
    messageHistory, \* the Map `messageHistory`: room -> array of records
    sockRooms,      \* Socket.IO's own room membership (socket.join), room -> sockets
    closed,         \* sockets whose 'disconnect' has fired
    handlers,       \* chatMessage invocations, in the order they were accepted
    clock,          \* the last reading of new Date()
    events,         \* number of client events handled so far (bounded by MaxEvents)
    last            \* the handler step that led to this state, with what it emitted

vars == <<rooms, maps, messageHistory, sockRooms, closed, handlers, clock, events, last>>

\* ------------------------------------------------------------- JS Map model

\* Position of key `id` in a Map's entry list, 0 when absent (Map.prototype.has/get).
MapIndex(m, id) ==
    IF \E i \in 1 .. Len(m) : m[i].id = id
    THEN CHOOSE i \in 1 .. Len(m) : m[i].id = id
    ELSE 0

MapHas(m, id) == MapIndex(m, id) # 0

MapKeys(m) == {m[i].id : i \in 1 .. Len(m)}

\* Map.prototype.set: an existing key keeps its position and gets the new value,
\* a new key is appended.
MapSet(m, id, user) ==
    IF MapHas(m, id)
    THEN [m EXCEPT ![MapIndex(m, id)] = [id |-> id, user |-> user]]
    ELSE Append(m, [id |-> id, user |-> user])

\* Map.prototype.delete.
MapDelete(m, id) ==
    LET p == MapIndex(m, id)
    IN  IF p = 0 THEN m ELSE SubSeq(m, 1, p - 1) \o SubSeq(m, p + 1, Len(m))

\* ------------------------------------------------------------ the registry

RoomIndex(room) ==
    IF \E i \in 1 .. Len(rooms) : rooms[i].room = room
    THEN CHOOSE i \in 1 .. Len(rooms) : rooms[i].room = room
    ELSE 0

RoomsHas(room) == RoomIndex(room) # 0

\* rooms.get(room): the id of the Map object, NoMap for undefined.
RoomsGet(room) == IF RoomsHas(room) THEN rooms[RoomIndex(room)].users ELSE NoMap

\* The participant map of `room` as the registry holds it (empty when absent).
Users(room) == IF RoomsHas(room) THEN maps[RoomsGet(room)] ELSE <<>>

\* Map objects still referenced: by `rooms`, or by the local `roomUsers` of a
\* handler that has not finished.
LiveMaps ==
    {rooms[i].users : i \in 1 .. Len(rooms)}
        \cup {handlers[m].roomUsers : m \in 1 .. Len(handlers)}

\* `new Map()`: an object no one references yet.
NewMap == CHOOSE id \in MapIds : id \notin LiveMaps /\ \A j \in MapIds : j < id => j \in LiveMaps

\* ------------------------------------------------------------------ emits

\* socket.emit(ev, data) and io.to(id).emit(ev, data): addressed to one socket,
\* received by it unless it has disconnected.
EmitTo(id, ev, data, gone) ==
    [ev |-> ev, addr |-> id, to |-> {id} \ gone, data |-> data, entry |-> NoEntry]

\* An emit of the delivery loop.  Ghost field `entry`: the [userId, user] pair
\* the for-of had bound when it emitted.
LoopEmit(entry, ev, data, gone) ==
    [ev |-> ev, addr |-> entry.id, to |-> {entry.id} \ gone, data |-> data, entry |-> entry]

\* io.to(room).emit(ev, data): received by the sockets Socket.IO has in the room.
Broadcast(room, ev, data, members) ==
    [ev |-> ev, addr |-> room, to |-> members, data |-> data, entry |-> NoEntry]

\* ------------------------------------------------------------------- Init

Init ==
    /\ rooms = <<>>
    /\ maps = [id \in MapIds |-> <<>>]
    /\ messageHistory = [r \in {} |-> <<>>]
    /\ sockRooms = [r \in RoomIds |-> {}]
    /\ closed = {}
    /\ handlers = <<>>
    /\ clock = 0
    /\ events = 0
    /\ last = [op |-> "init", sock |-> Missing, room |-> Missing, m |-> 0, args |-> NoArgs,
               emits |-> <<>>]

\* new Date(): the wall clock does not go back.
Now == {t \in {clock, clock + 1} : t <= MaxClock}

\* -------------------------------------------------------------------- join

JoinText(username) ==
    CASE username = "Ann" -> "Ann has joined the chat"
      [] username = "Bob" -> "Bob has joined the chat"
      [] OTHER -> "Cid has joined the chat"

\* Mutant of FilterHistory: the replay is not filtered by role.
FilterHistoryAll(history, role) == history

\* The filter of the replay (lines 214-220).
FilterHistory(history, role) ==
    SelectSeq(history, LAMBDA msg :
        IF role = "user" THEN msg.type # "system" /\ msg.type # "private" ELSE TRUE)

HistoryHas(room) == room \in DOMAIN messageHistory

\* Mutant of HistoryPush: the record is put at the head of the array.
HistoryUnshift(mh, room, record) == [mh EXCEPT ![room] = <<record>> \o @]

\* messageHistory with `record` pushed on the array of `room`.
HistoryPush(mh, room, record) == [mh EXCEPT ![room] = Append(@, record)]

JoinArgs(room, username, language, role) ==
    [room |-> room, username |-> username, language |-> language, role |-> role]

\* Mutant of JoinInvalid: the username is not validated.
JoinInvalidNoUsername(room, username, language, role) ==
    room = Missing \/ language = Missing \/ role = Missing

\* The validation of line 201.
JoinInvalid(room, username, language, role) ==
    room = Missing \/ username = Missing \/ language = Missing \/ role = Missing

Join(s, room, username, language, role) ==
    /\ s \notin closed
    /\ events < MaxEvents
    /\ events' = events + 1
    /\ IF JoinInvalid(room, username, language, role)
       THEN /\ last' = [op |-> "join", sock |-> s, room |-> Missing, m |-> 0,
                        args |-> JoinArgs(room, username, language, role),
                        emits |-> <<EmitTo(s, "error", "Invalid join parameters", closed)>>]
            /\ UNCHANGED <<rooms, maps, messageHistory, sockRooms, closed, handlers, clock>>
       ELSE \E now \in Now :
                LET mid == IF RoomsHas(room) THEN RoomsGet(room) ELSE NewMap
                    user == [username |-> username, language |-> language, role |-> role]
                    members == sockRooms[room] \cup {s}
                    replay ==
                        IF HistoryHas(room)
                        THEN <<EmitTo(s, "messageHistory",
                                      FilterHistory(messageHistory[room], role), closed)>>
                        ELSE <<>>
                    joinMessage == [username |-> "System", text |-> JoinText(username),
                                    timestamp |-> now, type |-> "system"]
                    mh1 == IF HistoryHas(room) THEN messageHistory
                           ELSE [r \in DOMAIN messageHistory \cup {room} |->
                                    IF r = room THEN <<>> ELSE messageHistory[r]]
                IN  /\ sockRooms' = [sockRooms EXCEPT ![room] = members]
                    /\ rooms' = IF RoomsHas(room) THEN rooms
                                ELSE Append(rooms, [room |-> room, users |-> mid])
                    /\ maps' = [maps EXCEPT ![mid] = MapSet(@, s, user)]
                    /\ messageHistory' = HistoryPush(mh1, room, joinMessage)
                    /\ clock' = now
                    /\ last' = [op |-> "join", sock |-> s, room |-> room, m |-> 0,
                                args |-> JoinArgs(room, username, language, role),
                                emits |-> replay \o
                                    <<Broadcast(room, "message", joinMessage, members)>>]
                    /\ UNCHANGED <<closed, handlers>>

\* -------------------------------------------------------------- disconnect

\* The first room, in the insertion order of `rooms`, whose map has the socket
\* (the loop of lines 313-324 breaks after it); 0 when there is none.
FirstRoomWith(s) ==
    IF \E i \in 1 .. Len(rooms) : MapHas(maps[rooms[i].users], s)
    THEN CHOOSE i \in 1 .. Len(rooms) :
            /\ MapHas(maps[rooms[i].users], s)
            /\ \A j \in 1 .. (i - 1) : ~MapHas(maps[rooms[j].users], s)
    ELSE 0

\* Mutant of IterAfterDelete: a live iterator keeps its index when an entry
\* before it is deleted, and so skips the entry that moved up.
IterStale(hs, mid, p) == hs

\* Map.prototype.delete under a live iterator: the entries after the deleted
\* one move up, so an iterator that had already passed it is one entry further
\* back in the list.  Applied to every suspended handler iterating Map `mid`.
IterAfterDelete(hs, mid, p) ==
    [m \in 1 .. Len(hs) |->
        IF hs[m].roomUsers = mid /\ p <= hs[m].next
        THEN [hs[m] EXCEPT !.next = @ - 1]
        ELSE hs[m]]

\* Ghost: the handlers that hold Map `mid` learn that their room was destroyed.
MarkDestroyed(hs, mid) ==
    [m \in 1 .. Len(hs) |->
        IF hs[m].roomUsers = mid THEN [hs[m] EXCEPT !.destroyed = TRUE] ELSE hs[m]]

\* Mutant of RoomsDelete: the emptied room stays in the registry.
RoomsKeep(rs, i) == rs

\* rooms.delete(room) (line 318), for the room at position i.
RoomsDelete(rs, i) == SubSeq(rs, 1, i - 1) \o SubSeq(rs, i + 1, Len(rs))

\* Mutant of HistoryDelete: the log of the emptied room is kept.
HistoryKeep(mh, room) == mh

\* messageHistory.delete(room) (line 319).
HistoryDelete(mh, room) == [r \in DOMAIN mh \ {room} |-> mh[r]]

Disconnect(s) ==
    /\ s \notin closed
    /\ events < MaxEvents
    /\ events' = events + 1
    /\ closed' = closed \cup {s}
    /\ sockRooms' = [r \in RoomIds |-> sockRooms[r] \ {s}]
    /\ LET i == FirstRoomWith(s)
       IN  IF i = 0
           THEN /\ last' = [op |-> "disconnect", sock |-> s, room |-> Missing, m |-> 0, args |-> NoArgs,
                            emits |-> <<>>]
                /\ UNCHANGED <<rooms, maps, messageHistory, handlers>>
           ELSE LET room == rooms[i].room
                    mid == rooms[i].users
                    users == MapDelete(maps[mid], s)
                IN  /\ maps' = [maps EXCEPT ![mid] = users]
                    /\ handlers' =
                        LET hs == IterAfterDelete(handlers, mid, MapIndex(maps[mid], s))
                        IN  IF Len(users) = 0 THEN MarkDestroyed(hs, mid) ELSE hs
                    /\ IF Len(users) = 0
                       THEN /\ rooms' = RoomsDelete(rooms, i)
                            /\ messageHistory' = HistoryDelete(messageHistory, room)
                       ELSE UNCHANGED <<rooms, messageHistory>>
                    /\ last' = [op |-> "disconnect", sock |-> s, room |-> room, m |-> 0, args |-> NoArgs,
                                emits |-> <<>>]
    /\ UNCHANGED clock

\* ------------------------------------------------------------- chatMessage

\* The Translation Gateway's answer (response.data[0].translations[0].text):
\* the utterance in the target language.
GatewayText(text, targetLanguage) ==
    CASE targetLanguage = "en" -> "hello"
      [] targetLanguage = "fr" -> "bonjour"
      [] OTHER -> text

\* What a gateway call ends in.  translateText fails on a gateway error or on
\* its 5 s timeout; analyzeMessage fails on an empty knowledge base or on a
\* gateway error, and may also return an empty list.
TranslateOutcomes == {"ok", "Translation service failed"}
AnalyzeOutcomes == {"ok", "none", "Knowledge base is empty", "Analysis failed"}
Suggestions(res) == IF res = "ok" THEN <<"tip">> ELSE <<>>

\* The ghost field `out` of a handler: what each socket has received from it.
Tag(e) == IF e.ev = "error" THEN e.data ELSE e.ev

RECURSIVE TagsFor(_, _)
TagsFor(emits, c) ==
    IF emits = <<>> THEN <<>>
    ELSE (IF c \in Head(emits).to THEN <<Tag(Head(emits))>> ELSE <<>>)
            \o TagsFor(Tail(emits), c)

\* Mutant of Deliver: the record carries the original text whatever the
\* recipient's language.
DeliverOriginal(st, text) ==
    LET h == st.h
        messageToSend == [username |-> h.sender.username,
                          text |-> h.message,
                          originalText |-> h.message,
                          isTranslated |-> h.cur.user.language # h.language,
                          timestamp |-> h.timestamp,
                          type |-> "public",
                          role |-> h.sender.role]
    IN  IF h.room \in DOMAIN st.mh
        THEN [st EXCEPT !.mh = HistoryPush(st.mh, h.room, messageToSend),
                        !.emits = Append(@, LoopEmit(h.cur, "message", messageToSend, closed))]
        ELSE [st EXCEPT !.emits =
                Append(@, LoopEmit(h.cur, "error", "Message delivery failed", closed))]

\* Mutant of Deliver: the record is emitted and not logged.
DeliverUnlogged(st, text) ==
    LET h == st.h
        messageToSend == [username |-> h.sender.username,
                          text |-> text,
                          originalText |-> h.message,
                          isTranslated |-> h.cur.user.language # h.language,
                          timestamp |-> h.timestamp,
                          type |-> "public",
                          role |-> h.sender.role]
    IN  [st EXCEPT !.emits = Append(@, LoopEmit(h.cur, "message", messageToSend, closed))]

\* The state of a running chatMessage handler: its locals `h`, the
\* messageHistory Map it writes and what it has emitted in this step.
\* Lines 282-296 once the text is known: build messageToSend, push it on the
\* room's array and emit it to the recipient.  messageHistory.get(room) is
\* undefined when the room was destroyed meanwhile: the push throws and the
\* catch of line 297 reports a delivery failure.
Deliver(st, text) ==
    LET h == st.h
        messageToSend == [username |-> h.sender.username,
                          text |-> text,
                          originalText |-> h.message,
                          isTranslated |-> h.cur.user.language # h.language,
                          timestamp |-> h.timestamp,
                          type |-> "public",
                          role |-> h.sender.role]
    IN  IF h.room \in DOMAIN st.mh
        THEN [st EXCEPT !.mh = HistoryPush(st.mh, h.room, messageToSend),
                        !.emits = Append(@, LoopEmit(h.cur, "message", messageToSend, closed))]
        ELSE [st EXCEPT !.emits =
                Append(@, LoopEmit(h.cur, "error", "Message delivery failed", closed))]

\* The handler is over: its locals are gone.
Finish(h) == [h EXCEPT !.pc = "done", !.roomUsers = NoMap, !.next = 0, !.cur = NoEntry]

RECURSIVE RunLoop(_)

\* The catch of lines 297-303.
DeliveryFailed(st) ==
    [st EXCEPT !.emits =
        Append(@, LoopEmit(st.h.cur, "error", "Message delivery failed", closed))]

\* Mutant of AfterFailure: a failed delivery ends the whole fan-out.
AfterFailureAbort(st) ==
    LET st1 == DeliveryFailed([st EXCEPT !.h.failed = @ \cup {st.h.cur.id}])
    IN  [st1 EXCEPT !.h = Finish(st1.h)]

\* translateText rejected: the catch, then the loop goes on with the next entry.
\* Ghost field `failed`: the recipients whose gateway call failed.
AfterFailure(st) ==
    RunLoop(DeliveryFailed([st EXCEPT !.h.failed = @ \cup {st.h.cur.id}]))

\* The delivery loop (lines 280-304) from the iterator's next() on, run until
\* it suspends on translateText or ends.
RunLoop(st) ==
    LET h == st.h
        users == maps[h.roomUsers]
    IN  IF h.next >= Len(users)
        THEN [st EXCEPT !.h = Finish(h)]
        ELSE LET entry == users[h.next + 1]
                 h1 == [h EXCEPT !.next = @ + 1, !.cur = entry]
             IN  IF entry.user.language # h.language
                 THEN [st EXCEPT !.h = [h1 EXCEPT !.pc = "translate"]]
                 ELSE RunLoop(Deliver([st EXCEPT !.h = h1], h.message))

\* Mutant of SuggestionEmits: the suggestions go to every participant.
RECURSIVE SuggestionEmitsAll(_, _)
SuggestionEmitsAll(users, suggestions) ==
    IF users = <<>> THEN <<>>
    ELSE <<EmitTo(Head(users).id, "suggestions", suggestions, closed)>>
            \o SuggestionEmitsAll(Tail(users), suggestions)

\* The suggestion fan-out (lines 269-273): every entry of roomUsers whose role
\* is 'agent', in the Map's order.
RECURSIVE SuggestionEmits(_, _)
SuggestionEmits(users, suggestions) ==
    IF users = <<>> THEN <<>>
    ELSE (IF Head(users).user.role = "agent"
          THEN <<EmitTo(Head(users).id, "suggestions", suggestions, closed)>>
          ELSE <<>>) \o SuggestionEmits(Tail(users), suggestions)

\* The state a step of handler m leaves: its locals, the history, the emits.
Commit(m, st, hs, op, args) ==
    LET h == [st.h EXCEPT !.out = [c \in Conns |-> @[c] \o TagsFor(st.emits, c)]]
    IN  /\ handlers' = [i \in 1 .. Max(Len(hs), m) |-> IF i = m THEN h ELSE hs[i]]
        /\ messageHistory' = st.mh
        /\ last' = [op |-> op, sock |-> h.sock, room |-> h.room, m |-> m, args |-> args,
                    emits |-> st.emits]

\* A chatMessage invocation (an entry of `handlers`) holds the handler's
\* closure: sock (socket), room, message, language (the payload), sender,
\* timestamp, roomUsers (the Map object read at line 249), the position `next`
\* of the loop's iterator (entries already yielded) and its current entry `cur`;
\* pc is "analyze" or "translate" while an await is pending and "done" after.
\* Ghost fields, written and never read by the handler: accepted (the keys of
\* roomUsers when the message was accepted), destroyed (the room was deleted
\* from `rooms` since), failed (recipients whose translateText call rejected)
\* and out (per socket, the events received from this invocation).
ChatArgs(room, message, language) ==
    [room |-> room, message |-> message, language |-> language]

\* Mutant of ChatInvalid: the language is not validated.
ChatInvalidNoLanguage(room, message, language) ==
    room = Missing \/ message = Missing

\* The validation of line 244.
ChatInvalid(room, message, language) ==
    room = Missing \/ message = Missing \/ language = Missing

ChatError(s, args, text) ==
    /\ last' = [op |-> "chatMessage", sock |-> s, room |-> Missing, m |-> 0, args |-> args,
                emits |-> <<EmitTo(s, "error", text, closed)>>]
    /\ UNCHANGED <<rooms, maps, messageHistory, sockRooms, closed, handlers, clock>>

ChatMessage(s, room, message, language) ==
    /\ s \notin closed
    /\ events < MaxEvents
    /\ events' = events + 1
    /\ IF ChatInvalid(room, message, language)
       THEN ChatError(s, ChatArgs(room, message, language), "Invalid message parameters")
       ELSE IF ~RoomsHas(room)
       THEN ChatError(s, ChatArgs(room, message, language), "Room not found")
       ELSE IF ~MapHas(Users(room), s)
       THEN ChatError(s, ChatArgs(room, message, language), "User not found in room")
       ELSE /\ Len(handlers) < MaxMsgs
            /\ \E now \in Now :
                LET roomUsers == RoomsGet(room)
                    sender == Users(room)[MapIndex(Users(room), s)].user
                    h == [sock |-> s, room |-> room, message |-> message,
                          language |-> language, sender |-> sender, timestamp |-> now,
                          roomUsers |-> roomUsers, pc |-> "analyze", next |-> 0,
                          cur |-> NoEntry, accepted |-> MapKeys(Users(room)),
                          destroyed |-> FALSE, failed |-> {},
                          out |-> [c \in Conns |-> <<>>]]
                    st == [h |-> h, mh |-> messageHistory, emits |-> <<>>]
                IN  /\ clock' = now
                    /\ Commit(Len(handlers) + 1,
                              IF sender.role = "user" THEN st ELSE RunLoop(st),
                              handlers, "chatMessage", ChatArgs(room, message, language))
            /\ UNCHANGED <<rooms, maps, sockRooms, closed>>

\* Mutant of AfterAnalyze: a rejected analyzeMessage ends the handler, as if
\* the error reached the outer catch of line 305.
AfterAnalyzeAbort(h, res) ==
    IF res \in {"ok", "none"}
    THEN RunLoop([h |-> h, mh |-> messageHistory,
                  emits |-> SuggestionEmits(maps[h.roomUsers], Suggestions(res))])
    ELSE [h |-> Finish(h), mh |-> messageHistory,
          emits |-> <<EmitTo(h.sock, "error", "Failed to process message", closed)>>]

\* Lines 266-304 once analyzeMessage has settled: the suggestion fan-out, or
\* the catch of line 274 when it rejected, and then the delivery loop.
AfterAnalyze(h, res) ==
    RunLoop([h |-> h, mh |-> messageHistory,
             emits |-> IF res \in {"ok", "none"}
                       THEN SuggestionEmits(maps[h.roomUsers], Suggestions(res))
                       ELSE <<EmitTo(h.sock, "error", "Failed to generate suggestions",
                                     closed)>>])

\* `await analyzeMessage(message)` settles (line 266).
AnalyzeReturn(m, res) ==
    /\ m \in 1 .. Len(handlers)
    /\ handlers[m].pc = "analyze"
    /\ Commit(m, AfterAnalyze(handlers[m], res), handlers, "analyzeReturn", ReturnArgs(res))
    /\ UNCHANGED <<rooms, maps, sockRooms, closed, clock, events>>

\* `await translateText(message, user.language)` settles (line 286): the rest of
\* the loop body for the current recipient, then the loop goes on.
TranslateReturn(m, res) ==
    /\ m \in 1 .. Len(handlers)
    /\ handlers[m].pc = "translate"
    /\ LET h == handlers[m]
           st == [h |-> h, mh |-> messageHistory, emits |-> <<>>]
       IN  Commit(m,
                  IF res = "ok"
                  THEN RunLoop(Deliver(st, GatewayText(h.message, h.cur.user.language)))
                  ELSE AfterFailure(st),
                  handlers, "translateReturn", ReturnArgs(res))
    /\ UNCHANGED <<rooms, maps, sockRooms, closed, clock, events>>

\* -------------------------------------------------------------------- Next

Next ==
    \/ \E s \in Conns :
        \E p \in JoinPayloads(s) : Join(s, p.room, p.username, p.language, p.role)
    \/ \E s \in Conns, p \in ChatPayloads : ChatMessage(s, p.room, p.message, p.language)
    \/ \E m \in 1 .. MaxMsgs, res \in AnalyzeOutcomes : AnalyzeReturn(m, res)
    \/ \E m \in 1 .. MaxMsgs, res \in TranslateOutcomes : TranslateReturn(m, res)
    \/ \E s \in Conns : Disconnect(s)

Spec == Init /\ [][Next]_vars

\* translateText gives axios a 5 s timeout (line 117), so a pending translation
\* always settles.  analyzeMessage passes no timeout to getDocs or to
\* generateContent (lines 132, 143): nothing makes a pending analysis settle.
LiveSpec ==
    Spec /\ \A m \in 1 .. MaxMsgs :
                WF_vars(\E res \in TranslateOutcomes : TranslateReturn(m, res))

\* ================================================================= claims

Range(seq) == {seq[i] : i \in 1 .. Len(seq)}

\* The emits of the last step that carry event `ev`.
LastEmits(ev) == {e \in Range(last.emits) : e.ev = ev}

\* The step that led here was run by a chatMessage handler.
FanOutStep == last.op \in {"chatMessage", "analyzeReturn", "translateReturn"} /\ last.m # 0

\* The leave notice of the spec's scenario ("Bob" ... "left").
LeaveText(username) ==
    CASE username = "Ann" -> "Ann has left the chat"
      [] username = "Bob" -> "Bob has left the chat"
      [] OTHER -> "Cid has left the chat"

\* The last step was the disconnect of a registered connection whose room
\* still has participants.
LeftOthersBehind ==
    /\ last.op = "disconnect"
    /\ last.room # Missing
    /\ RoomsHas(last.room)

\* C1: when a registered connection disconnects while another participant
\* remains in its room, a system-tagged leave notice naming it is the new tail
\* of the room's history and is broadcast as `message` to every remaining
\* participant, and the room is still in the registry.
C1_LeaveNoticeBroadcast ==
    LeftOthersBehind =>
        /\ HistoryHas(last.room)
        /\ \E e \in LastEmits("message") :
            /\ e.data.type = "system"
            /\ e.data.text = LeaveText(NameOf(last.sock))
            /\ e.to = MapKeys(Users(last.room)) \ closed
            /\ messageHistory[last.room][Len(messageHistory[last.room])] = e.data

\* C2: for every room, the connections in the registry's participant map are
\* exactly the connections that joined the room and have not disconnected
\* since (Socket.IO's own membership of the room); a disconnected connection is
\* in no room.
C2_RegistryIsMembership ==
    /\ \A r \in RoomIds : MapKeys(Users(r)) = sockRooms[r]
    /\ \A s \in closed, r \in RoomIds : ~MapHas(Users(r), s)

\* C3: once a room has been emptied, nothing that originates from a message
\* sent before is found in the history of a room of the same id: a handler
\* whose room was destroyed while it was suspended leaves no record in the log.
C3_NoRecordSurvivesTheRoom ==
    (FanOutStep /\ handlers[last.m].destroyed) =>
        \A e \in LastEmits("message") :
            ~(HistoryHas(last.room) /\ e.data \in Range(messageHistory[last.room]))

\* The role an entry of the room's participant map gives socket c.
RoleIn(room, c) == Users(room)[MapIndex(Users(room), c)].user.role

\* C4: the messageHistory replay a join sends holds no 'system' or 'private'
\* record when the joiner's role is 'user', and is the room's whole log (as it
\* was before the join notice of this join) in order when the role is 'agent'
\* or 'supervisor'.
C4_ReplayFilteredByRole ==
    (last.op = "join" /\ last.room # Missing) =>
        \A e \in LastEmits("messageHistory") :
            LET log == messageHistory[last.room]
            IN  /\ e.to = {last.sock}
                /\ last.args.role = "user" =>
                    \A i \in 1 .. Len(e.data) : e.data[i].type \notin {"system", "private"}
                /\ last.args.role \in {"agent", "supervisor"} =>
                    e.data = SubSeq(log, 1, Len(log) - 1)

\* A user joined a room whose log held join notices and chat records: the
\* replay had records, and fewer than the log.
C4_Witness ==
    /\ last.op = "join"
    /\ last.room # Missing
    /\ last.args.role = "user"
    /\ \E e \in LastEmits("messageHistory") :
        /\ e.data # <<>>
        /\ Len(e.data) < Len(messageHistory[last.room]) - 1

\* C5: a `suggestions` event is emitted only by the handler of a chatMessage
\* whose sender's role is 'user', and only to sockets that the room's
\* participant map holds with role 'agent'.
C5_SuggestionsOnlyToAgents ==
    \A e \in LastEmits("suggestions") :
        /\ last.op = "analyzeReturn"
        /\ last.m # 0
        /\ handlers[last.m].sender.role = "user"
        /\ MapHas(Users(last.room), e.addr)
        /\ RoleIn(last.room, e.addr) = "agent"

\* An agent received suggestions in a room that also holds a user and a
\* supervisor, both connected.
C5_Witness ==
    /\ \E e \in LastEmits("suggestions") : e.to # {}
    /\ \E u, v \in MapKeys(Users(last.room)) \ closed :
        RoleIn(last.room, u) = "user" /\ RoleIn(last.room, v) = "supervisor"

C7_FailureIsolated ==
    \A m \in 1 .. Len(handlers) :
        LET h == handlers[m]
        IN  /\ \A c \in Conns :
                "Message delivery failed" \in Range(h.out[c]) => c \in h.failed
            /\ (h.pc = "done" /\ h.failed # {}) =>
                \A b \in (h.accepted \ closed) \ h.failed : "message" \in Range(h.out[b])

\* The gateway failed for A, who got the error, and B, who comes after A in
\* the room's iteration order, got the message.
C7_Witness ==
    \E m \in 1 .. Len(handlers) :
        LET h == handlers[m]
        IN  /\ h.pc = "done"
            /\ \E a \in h.failed, b \in h.accepted \ closed :
                /\ b \notin h.failed
                /\ "Message delivery failed" \in Range(h.out[a])
                /\ "message" \in Range(h.out[b])
                /\ MapIndex(Users(h.room), a) < MapIndex(Users(h.room), b)
                /\ MapHas(Users(h.room), a)

JoinArgsIncomplete(args) ==
    args.room = Missing \/ args.username = Missing \/ args.language = Missing
        \/ args.role = Missing

\* C8: a join whose room, username, language or role is missing emits exactly
\* one `error`, to the joining socket, and changes neither the registry, nor
\* Socket.IO's rooms, nor any history, nor any handler.
C8_InvalidJoinRejected ==
    [][(last'.op = "join" /\ events' # events /\ JoinArgsIncomplete(last'.args)) =>
            /\ last'.emits = <<EmitTo(last'.sock, "error", "Invalid join parameters", {})>>
            /\ UNCHANGED <<rooms, maps, messageHistory, sockRooms, closed, handlers>>]_vars

\* A join without username was rejected while room r1 had participants.
C8_Witness ==
    /\ last.op = "join"
    /\ last.args.username = Missing
    /\ LastEmits("error") # {}
    /\ RoomsHas("r1")

\* C9: no recipient receives the `message` of a chatMessage after the
\* `message` of a chatMessage of the same room that was accepted later.
C9_PerRecipientOrder ==
    FanOutStep =>
        \A e \in LastEmits("message") : \A c \in e.to :
            \A m2 \in (last.m + 1) .. Len(handlers) :
                handlers[m2].room = last.room => "message" \notin Range(handlers[m2].out[c])

\* C10: the timestamps of a room's log never decrease along the log.
C10_TimestampsMonotone ==
    \A r \in DOMAIN messageHistory :
        \A i, j \in 1 .. Len(messageHistory[r]) :
            i < j => messageHistory[r][i].timestamp <= messageHistory[r][j].timestamp

\* C11: when a join or a disconnect has just read or changed a room's
\* participant map or history, no chatMessage handler of that room is between
\* its start and its end.
C11_SingleWriter ==
    (last.op \in {"join", "disconnect"} /\ last.room # Missing) =>
        \A m \in 1 .. Len(handlers) :
            handlers[m].room = last.room => handlers[m].pc = "done"

\* The rooms whose participant map holds socket c.
RoomsWith(c) == {r \in RoomIds : MapHas(Users(r), c)}

\* C14: every connection id is in the participant map of at most one room.
C14_OneRoomPerConnection ==
    \A c \in Conns : Cardinality(RoomsWith(c)) <= 1

\* C16: no room of the registry has an empty participant map.
C16_NoEmptyRoom ==
    \A i \in 1 .. Len(rooms) : Len(maps[rooms[i].users]) > 0

\* The disconnect of the last participant of a room removed the room, while
\* another room stays in the registry.
C16_Witness ==
    /\ last.op = "disconnect"
    /\ last.room # Missing
    /\ ~RoomsHas(last.room)
    /\ rooms # <<>>

\* C17: a room id is a key of `rooms` if and only if it is a key of
\* `messageHistory`.
C17_RoomsAndHistoryTogether ==
    {rooms[i].room : i \in 1 .. Len(rooms)} = DOMAIN messageHistory

\* A room was destroyed under a suspended handler and created again by a join:
\* it is in both Maps, with a log that starts anew.
C17_Witness ==
    /\ last.op = "join"
    /\ last.room # Missing
    /\ RoomsHas(last.room) /\ HistoryHas(last.room)
    /\ Len(messageHistory[last.room]) = 1
    /\ \E m \in 1 .. Len(handlers) :
        handlers[m].room = last.room /\ handlers[m].destroyed

\* The outcomes of analyzeMessage that are failures of the Suggestion Gateway.
SuggestionFailures == {"Knowledge base is empty", "Analysis failed"}

\* C12: when analyzeMessage fails for the chatMessage of a 'user', the step
\* emits one "Failed to generate suggestions" `error`, to the sender, and no
\* `suggestions`, and the delivery loop runs over the room's participants from
\* the first one on: a `message` for each in the map's order, up to the end of
\* the map or to the first participant that needs a translation, on which the
\* handler then waits.
C12_SuggestionFailureIsolated ==
    (last.op = "analyzeReturn" /\ last.args.res \in SuggestionFailures) =>
        LET h == handlers[last.m]
            parts == IF h.destroyed THEN <<>> ELSE Users(h.room)
            loop == Tail(last.emits)
        IN  /\ last.emits # <<>>
            /\ Head(last.emits) =
                    EmitTo(h.sock, "error", "Failed to generate suggestions", closed)
            /\ h.sender.role = "user"
            /\ \A i \in 1 .. Len(loop) :
                    /\ i <= Len(parts)
                    /\ loop[i].ev = "message"
                    /\ loop[i].addr = parts[i].id
                    /\ loop[i].entry = parts[i]
            /\ IF h.pc = "done"
               THEN Len(loop) = Len(parts)
               ELSE /\ h.pc = "translate"
                    /\ Len(loop) < Len(parts)
                    /\ h.cur = parts[Len(loop) + 1]
                    /\ h.cur.user.language # h.language

\* The analysis failed, the sender got the error, and another participant of
\* the room got the message in the same step.
C12_Witness ==
    /\ last.op = "analyzeReturn"
    /\ last.args.res \in SuggestionFailures
    /\ Head(last.emits).to = {last.sock}
    /\ \E e \in LastEmits("message") : e.to # {} /\ e.addr # last.sock

\* What the validation of a chatMessage rejects: a missing field, a room that
\* is not in the registry, a sender that is not in the room's participant map.
ChatArgsRejected(args, c) ==
    \/ args.room = Missing \/ args.message = Missing \/ args.language = Missing
    \/ ~RoomsHas(args.room)
    \/ ~MapHas(Users(args.room), c)

\* C13: a chatMessage with a missing field, naming a room that is not in the
\* registry, or sent by a socket that is not in the room's participant map,
\* emits exactly one `error`, to the sender, starts no handler (no gateway
\* call) and changes neither a history nor the registry.
C13_InvalidChatRejected ==
    [][(last'.op = "chatMessage" /\ events' # events
            /\ ChatArgsRejected(last'.args, last'.sock)) =>
            /\ Len(last'.emits) = 1
            /\ last'.emits[1].ev = "error"
            /\ last'.emits[1].addr = last'.sock
            /\ last'.emits[1].to = {last'.sock}
            /\ UNCHANGED <<rooms, maps, messageHistory, sockRooms, closed, handlers>>]_vars

\* A connected socket that is not in the participant map of an existing room
\* sent it a complete chatMessage and got the error.
C13_Witness ==
    /\ last.op = "chatMessage"
    /\ last.m = 0
    /\ last.args.message # Missing /\ last.args.language # Missing
    /\ RoomsHas(last.args.room)
    /\ ~MapHas(Users(last.args.room), last.sock)
    /\ \E e \in LastEmits("error") : e.to = {last.sock}

\* C15: every accepted chatMessage eventually completes its fan-out: the
\* handler that was started for it reaches its end, whatever the gateways do.
C15_FanOutCompletes ==
    \A m \in 1 .. MaxMsgs :
        (Len(handlers) >= m) ~> (Len(handlers) >= m /\ handlers[m].pc = "done")

\* The records carried by the `message` emits of a list of emits, in order.
RECURSIVE MessageRecords(_)
MessageRecords(emits) ==
    IF emits = <<>> THEN <<>>
    ELSE (IF Head(emits).ev = "message" THEN <<Head(emits).data>> ELSE <<>>)
            \o MessageRecords(Tail(emits))

\* The log of `room` in history Map mh, empty when the room has none.
LogOf(mh, room) == IF room \in DOMAIN mh THEN mh[room] ELSE <<>>

\* C18: in every step of a chatMessage handler, the records appended to the
\* room's history are exactly the records emitted as `message` in that step,
\* in the same order, each emitted to the recipient the loop was serving and
\* carrying the timestamp of the chatMessage; a delivery `error` comes with no
\* record, and no recipient gets both the `message` and a delivery `error` of
\* one chatMessage.
C18_DeliveryUnitAtomic ==
    [][(last'.op \in {"chatMessage", "analyzeReturn", "translateReturn"} /\ last'.m # 0) =>
            LET h == handlers'[last'.m]
                room == last'.room
                loop == {e \in Range(last'.emits) : e.ev \in {"message", "error"}
                                                    /\ e.entry # NoEntry}
            IN  /\ DOMAIN messageHistory' = DOMAIN messageHistory
                /\ \A r \in DOMAIN messageHistory \ {room} :
                        messageHistory'[r] = messageHistory[r]
                /\ LogOf(messageHistory', room) =
                        LogOf(messageHistory, room) \o MessageRecords(last'.emits)
                /\ \A e \in Range(last'.emits) : e.ev = "message" => e \in loop
                /\ \A e \in loop :
                        /\ e.addr = e.entry.id
                        /\ e.ev = "message" => e.data.timestamp = h.timestamp
                        /\ e.ev = "error" => e.data = "Message delivery failed"
                /\ \A c \in Conns :
                        ~("message" \in Range(h.out[c])
                            /\ "Message delivery failed" \in Range(h.out[c]))]_vars

\* One step of a handler delivered to one recipient, whose record is the new
\* tail of the log, and reported a failed delivery to another.
C18_Witness ==
    /\ FanOutStep
    /\ HistoryHas(last.room)
    /\ \E e \in LastEmits("error") : e.entry # NoEntry /\ e.to # {}
    /\ \E e \in LastEmits("message") :
        /\ e.to # {}
        /\ messageHistory[last.room][Len(messageHistory[last.room])] = e.data

\* C19: a valid join registers the joiner, then sends the joiner alone the
\* role-filtered replay of the room's history as it was before this join (no
\* replay when the room had no history), then appends the system-tagged join
\* notice at the tail of the history and broadcasts it to every connected
\* participant of the room, the joiner included; and no step changes what a
\* log already holds, so the join notices stay in the order of the joins.
C19_JoinOrder ==
    [][/\ \A room \in RoomIds :
          (last'.op = "join" /\ events' # events /\ last'.room = room) =>
            LET s == last'.sock
                a == last'.args
                old == LogOf(messageHistory, room)
                log == LogOf(messageHistory', room)
                n == Len(last'.emits)
            IN  /\ MapHas(Users(room)', s)
                /\ Len(log) = Len(old) + 1
                /\ SubSeq(log, 1, Len(old)) = old
                /\ log[Len(log)].type = "system"
                /\ log[Len(log)].text = JoinText(a.username)
                /\ n >= 1
                /\ last'.emits[n].ev = "message"
                /\ last'.emits[n].data = log[Len(log)]
                /\ last'.emits[n].to = MapKeys(Users(room)') \ closed'
                /\ s \in last'.emits[n].to
                /\ IF room \in DOMAIN messageHistory
                   THEN /\ n = 2
                        /\ last'.emits[1].ev = "messageHistory"
                        /\ last'.emits[1].to = {s}
                        /\ last'.emits[1].data =
                                SelectSeq(old, LAMBDA msg :
                                    a.role = "user" => msg.type \notin {"system", "private"})
                   ELSE n = 1
       /\ \A r \in DOMAIN messageHistory \cap DOMAIN messageHistory' :
            /\ Len(messageHistory[r]) <= Len(messageHistory'[r])
            /\ SubSeq(messageHistory'[r], 1, Len(messageHistory[r])) = messageHistory[r]]_vars

\* A join into a room with two connected participants and a log of notices
\* and chat records: the replay went to the joiner, the notice to all three.
C19_Witness ==
    /\ last.op = "join"
    /\ last.room # Missing
    /\ Len(last.emits) = 2
    /\ last.emits[1].to = {last.sock}
    /\ Cardinality(last.emits[2].to) = 3
    /\ \E i \in 1 .. Len(last.emits[1].data) : last.emits[1].data[i].type = "public"

\* What socket c has received from handler h as the outcome of a delivery.
DeliveryOutcomes(h, c) ==
    SelectSeq(h.out[c], LAMBDA t : t \in {"message", "Message delivery failed"})

\* C20: no connection gets more than one delivery outcome (`message` or
\* delivery `error`) of one chatMessage, and when the handler has finished,
\* every connection that was in the room's participant map when the message
\* was accepted and has not disconnected has got exactly one.
C20_FanOutTotal ==
    \A m \in 1 .. Len(handlers) :
        LET h == handlers[m]
        IN  /\ \A c \in Conns : Len(DeliveryOutcomes(h, c)) <= 1
            /\ h.pc = "done" =>
                \A c \in h.accepted \ closed : Len(DeliveryOutcomes(h, c)) = 1

\* The handler has finished after a participant it had not served yet left
\* the room while it waited, and a participant that stayed, which the map
\* held after one that left, got its one outcome.
C20_Witness ==
    \E m \in 1 .. Len(handlers) :
        LET h == handlers[m]
        IN  /\ h.pc = "done"
            /\ ~h.destroyed
            /\ \E c \in h.accepted \cap closed : DeliveryOutcomes(h, c) = <<>>
            /\ \E b \in h.accepted \ closed : Len(DeliveryOutcomes(h, b)) = 1
====
